---- MODULE Spec2Model ----
(***************************************************************************)
(* Model of the extraction-and-incremental-merge pipeline of               *)
(* src/src/scraper/parser.py: the tree walker parse_multiple_html_full and *)
(* the two incremental mergers parse_incremental (CSV) and                 *)
(* parse_incremental_parquet.                                              *)
(*                                                                         *)
(* A document tree is a function from the year directories that exist to   *)
(* a function from the file stems present in that directory to the file's  *)
(* kind: "ok" (parse_race_html_full returns) or "bad" (it raises).         *)
(* File stems are fixed-width digit strings in the source; they are        *)
(* modelled by naturals, whose order is the lexicographic order of the     *)
(* fixed-width names.  Tables are compared by value (a DataFrame row is    *)
(* the record of its cells).                                               *)
(***************************************************************************)
EXTENDS Integers, Sequences, FiniteSets, TLC

VARIABLES
    tree,         \* the document tree under html_dir
    fmt,          \* which pair of persisted tables the run is about: "csv" | "parquet"
    races_tbl,    \* persisted event table:       [exists, rows]
    results_tbl,  \* persisted participant table: [exists, rows]
    last,         \* the last merge call: tables before it, its batch, its outcome
    pc,           \* concurrent merges: position of each merge process
    loc,          \* concurrent merges: locals of each merge process
    args,         \* the arguments of a repeated merge or of a direct walk
    runs,         \* repeated merge: how many times it has run
    wk,           \* direct call of parse_multiple_html_full: its locals
    inp,          \* direct call of one function: its argument
    out,          \* direct call of one function: None before it returns, then its result
    cache,        \* data loader: the module globals _races_df and _results_df
    hist          \* data loader: the calls made so far, in order, with their outcomes

vars == <<tree, fmt, races_tbl, results_tbl, last, pc, loc, args, runs, wk, inp, out,
          cache, hist>>

----------------------------------------------------------------------------
(* Bounds of the model *)

\* file stems present in a year directory are drawn from 1..NumStems
NumStems == 2
\* per-year caps tried: 0 (None, no cap) .. MaxLimit
MaxLimit == 1
\* the long single-year directory has up to Cadence + ExtraDocs documents
ExtraDocs == 1
\* a merge is repeated with the same arguments up to MaxRuns times
MaxRuns == 3

\* progress cadence: "processed % 100 == 0"
Cadence == 100

Years == {2020, 2021}
Stems == 1..NumStems

----------------------------------------------------------------------------
(* Generic helpers *)

None == <<>>
Some(x) == <<x>>

\* sorted(...) of a finite set of naturals
Sorted(S) ==
    [i \in 1..Cardinality(S) |->
        CHOOSE x \in S : Cardinality({y \in S : y < x}) = i - 1]

Range(q) == {q[i] : i \in DOMAIN q}

\* sequences without repetition over S, of every length
RECURSIVE InjSeqs(_)
InjSeqs(S) ==
    {<<>>} \cup UNION {{<<x>> \o q : q \in InjSeqs(S \ {x})} : x \in S}

----------------------------------------------------------------------------
(* Numbers and text *)

\* A float with one decimal digit is modelled by its number of tenths:
\* "decimals / 10" is decimals tenths, and an amount of 750 is 750 * Unit
Unit == 10

\* a text is a sequence of characters
Digits == {"0", "1", "2", "3", "4", "5", "6", "7", "8", "9"}

DigitVal(c) ==
    CASE c = "0" -> 0 [] c = "1" -> 1 [] c = "2" -> 2 [] c = "3" -> 3
      [] c = "4" -> 4 [] c = "5" -> 5 [] c = "6" -> 6 [] c = "7" -> 7
      [] c = "8" -> 8 [] c = "9" -> 9

\* str.isdigit(): not empty, and every character is a digit
IsDigit(text) == text # <<>> /\ \A i \in DOMAIN text : text[i] \in Digits

\* the number written by the first k digits of text
RECURSIVE IntOfPrefix(_, _)
IntOfPrefix(text, k) ==
    IF k = 0 THEN 0 ELSE 10 * IntOfPrefix(text, k - 1) + DigitVal(text[k])

\* int(text) of a text of digits
ToInt(text) == IntOfPrefix(text, Len(text))

\* text[a:b] of Python, with 0-based a and exclusive b, never out of range
Slice(text, a, b) ==
    SubSeq(text, a + 1, IF b < Len(text) THEN b ELSE Len(text))

\* the length of the longest run of digits of text that starts at index i
RECURSIVE DigitRun(_, _)
DigitRun(text, i) ==
    IF i <= Len(text) /\ text[i] \in Digits THEN 1 + DigitRun(text, i + 1) ELSE 0

----------------------------------------------------------------------------
(* classify_race_level *)

\* a variant whose boundaries are strict
ClassifyRaceLevel_Strict(prize_money) ==
    IF prize_money > 10000 * Unit THEN <<"S", 6>>
    ELSE IF prize_money > 5000 * Unit THEN <<"A", 5>>
    ELSE IF prize_money > 3000 * Unit THEN <<"B", 4>>
    ELSE IF prize_money > 1500 * Unit THEN <<"C", 3>>
    ELSE IF prize_money > 750 * Unit THEN <<"D", 2>>
    ELSE <<"E", 1>>

\* classify_race_level(prize_money), prize_money in tenths
ClassifyRaceLevel(prize_money) ==
    IF prize_money >= 10000 * Unit THEN <<"S", 6>>
    ELSE IF prize_money >= 5000 * Unit THEN <<"A", 5>>
    ELSE IF prize_money >= 3000 * Unit THEN <<"B", 4>>
    ELSE IF prize_money >= 1500 * Unit THEN <<"C", 3>>
    ELSE IF prize_money >= 750 * Unit THEN <<"D", 2>>
    ELSE <<"E", 1>>

----------------------------------------------------------------------------
(* parse_time_to_seconds *)

\* re.match(r'(\d+):(\d+)\.(\d+)', time_str): the three groups of a match at
\* the start of the text (whatever follows it), or None
MatchTime(time_str) ==
    LET n1 == DigitRun(time_str, 1)
        n2 == DigitRun(time_str, n1 + 2)
        n3 == DigitRun(time_str, n1 + n2 + 3)
    IN IF /\ n1 >= 1
          /\ Len(time_str) >= n1 + 1 /\ time_str[n1 + 1] = ":"
          /\ n2 >= 1
          /\ Len(time_str) >= n1 + n2 + 2 /\ time_str[n1 + n2 + 2] = "."
          /\ n3 >= 1
       THEN Some(<<SubSeq(time_str, 1, n1),
                   SubSeq(time_str, n1 + 2, n1 + n2 + 1),
                   SubSeq(time_str, n1 + n2 + 3, n1 + n2 + n3 + 2)>>)
       ELSE None

\* parse_time_to_seconds(time_str): the seconds in tenths, or None
ParseTimeToSeconds(time_str) ==
    IF time_str = <<>>
    THEN None
    ELSE LET Seconds(match) ==
                 IF match # None
                 THEN LET minutes == ToInt(match[1][1])
                          seconds == ToInt(match[1][2])
                          decimals == ToInt(match[1][3])
                      IN Some(minutes * 60 * Unit + seconds * Unit + decimals)
                 ELSE None
         IN Seconds(MatchTime(time_str))

----------------------------------------------------------------------------
(* Decoding of the document's base name: the head of parse_race_html_full *)

\* venue_map.get(venue_code, ''); the names stand for the table's
\* 札幌, 函館, 福島, 新潟, 東京, 中山, 中京, 京都, 阪神, 小倉
VenueMapGet(venue_code) ==
    IF venue_code = None THEN ""
    ELSE CASE venue_code[1] = <<"0", "1">> -> "Sapporo"
           [] venue_code[1] = <<"0", "2">> -> "Hakodate"
           [] venue_code[1] = <<"0", "3">> -> "Fukushima"
           [] venue_code[1] = <<"0", "4">> -> "Niigata"
           [] venue_code[1] = <<"0", "5">> -> "Tokyo"
           [] venue_code[1] = <<"0", "6">> -> "Nakayama"
           [] venue_code[1] = <<"0", "7">> -> "Chukyo"
           [] venue_code[1] = <<"0", "8">> -> "Kyoto"
           [] venue_code[1] = <<"0", "9">> -> "Hanshin"
           [] venue_code[1] = <<"1", "0">> -> "Kokura"
           [] OTHER -> ""

\* a variant that slices without testing the length of the name
DecodeRaceId_NoLengthTest(race_id) ==
    LET venue_code == Some(Slice(race_id, 4, 6))
    IN [venue_code |-> venue_code,
        kaisai |-> Some(Slice(race_id, 6, 8)),
        day |-> Some(Slice(race_id, 8, 10)),
        race_num |-> Some(Slice(race_id, 10, 12)),
        venue_name |-> VenueMapGet(venue_code)]

\* the fields of race_info decoded from race_id, the document's base name
DecodeRaceId(race_id) ==
    LET venue_code == IF Len(race_id) >= 6 THEN Some(Slice(race_id, 4, 6)) ELSE None
    IN [venue_code |-> venue_code,
        kaisai |-> IF Len(race_id) >= 8 THEN Some(Slice(race_id, 6, 8)) ELSE None,
        day |-> IF Len(race_id) >= 10 THEN Some(Slice(race_id, 8, 10)) ELSE None,
        race_num |-> IF Len(race_id) >= 12 THEN Some(Slice(race_id, 10, 12)) ELSE None,
        venue_name |-> VenueMapGet(venue_code)]

----------------------------------------------------------------------------
(* Documents and parse_race_html_full                                     *)
(*                                                                         *)
(* The soup of a document is the record of what the finders of the parser  *)
(* see in it:                                                              *)
(*   racedata: None, or Some([course, condition]) for the span of the      *)
(*             racedata block: course is None or Some([surface, distance]) *)
(*             (the groups of the course pattern), condition is the        *)
(*             track condition text ("" without a match)                   *)
(*   date:     None, or Some(year-of-the-date)                             *)
(*   table:    None, or Some(rows): the rows of the results table after    *)
(*             its header                                                  *)
(* A row is [ncells, finish, num, time, prize, cells]: the number of its   *)
(* td cells, the texts of the cells 0, 2, 7 and of the last cell, and, in  *)
(* cell order, the cells that carry a class: [classes, text, span].        *)

\* re.match(r'^\d+\.\d+$', text)
IsDecimal(text) ==
    LET n1 == DigitRun(text, 1)
        n2 == DigitRun(text, n1 + 2)
    IN /\ n1 >= 1
       /\ Len(text) >= n1 + 1 /\ text[n1 + 1] = "."
       /\ n2 >= 1
       /\ Len(text) = n1 + 1 + n2

\* float(text) of a decimal text, in tenths (to one decimal digit)
DecimalToFloat(text) ==
    LET n1 == DigitRun(text, 1)
    IN ToInt(SubSeq(text, 1, n1)) * Unit + DigitVal(text[n1 + 2])

\* float(text): the value in tenths of a text of digits with or without a
\* fraction; [ok |-> FALSE] stands for the ValueError of any other text
Float(text) ==
    IF IsDecimal(text) THEN [ok |-> TRUE, value |-> DecimalToFloat(text)]
    ELSE IF IsDigit(text) THEN [ok |-> TRUE, value |-> ToInt(text) * Unit]
    ELSE [ok |-> FALSE, value |-> 0]

\* text.replace(',', '')
RemoveCommas(text) == SelectSeq(text, LAMBDA c : c # ",")

\* any('ml' in c for c in classes), over the class names of the documents
ContainsMl(classes) == classes \cap {"ml", "r3ml"} # {}

\* one turn of the loop over the cells of a row that looks for the odds and
\* the popularity
ScanCell(horse, cell) ==
    LET h1 == IF "txt_r" \in cell.classes /\ IsDecimal(cell.text) /\ horse.odds = None
              THEN [horse EXCEPT !.odds = Some(DecimalToFloat(cell.text))]
              ELSE horse
    IN IF /\ ContainsMl(cell.classes)
          /\ cell.span # None
          /\ IsDigit(cell.span[1])
          /\ 1 <= ToInt(cell.span[1])
          /\ ToInt(cell.span[1]) <= 18
       THEN [h1 EXCEPT !.popularity = Some(ToInt(cell.span[1]))]
       ELSE h1

\* the loop over the cells of a row, from cell i on
RECURSIVE ScanCells(_, _, _)
ScanCells(horse, cells, i) ==
    IF i > Len(cells) THEN horse
    ELSE ScanCells(ScanCell(horse, cells[i]), cells, i + 1)

\* the body of the loop over the rows: the participant record of one row of
\* ten cells or more
ParseRow(race_id, row) ==
    LET PrizeMoney(prize) == IF prize.ok THEN prize.value ELSE 0
    IN ScanCells(
           [race_id |-> race_id,
            finish_position |-> IF IsDigit(row.finish) THEN Some(ToInt(row.finish)) ELSE None,
            horse_number |-> IF IsDigit(row.num) THEN Some(ToInt(row.num)) ELSE None,
            time_seconds |-> ParseTimeToSeconds(row.time),
            odds |-> None,
            popularity |-> None,
            prize_money |-> PrizeMoney(Float(RemoveCommas(row.prize)))],
           row.cells, 1)

\* the loop over the rows: rows of fewer than ten cells are passed over
RECURSIVE ParseRows(_, _, _)
ParseRows(race_id, rows, i) ==
    IF i > Len(rows) THEN <<>>
    ELSE IF rows[i].ncells < 10 THEN ParseRows(race_id, rows, i + 1)
    ELSE <<ParseRow(race_id, rows[i])>> \o ParseRows(race_id, rows, i + 1)

\* a variant that takes every participant with a finish position
FirstPlace_AnyFinisher(horses) ==
    SelectSeq(horses, LAMBDA h : h.finish_position # None)

\* first_place = [h for h in horses if h.get('finish_position') == 1]
FirstPlace(horses) ==
    SelectSeq(horses, LAMBDA h : h.finish_position = Some(1))

\* the digit of value v
DigitChar(v) == CHOOSE c \in Digits : DigitVal(c) = v

\* the file name of stem s, twelve digits: the first four number the
\* document, the next two are a venue code that depends on the number, the
\* last six are the same for every document
StemName(s) ==
    <<DigitChar((s \div 1000) % 10), DigitChar((s \div 100) % 10),
      DigitChar((s \div 10) % 10), DigitChar(s % 10),
      DigitChar((s % 12) \div 10), DigitChar((s % 12) % 10),
      "0", "1", "0", "1", "0", "1">>

\* texts of the documents
Txt1 == <<"1">>
Txt2 == <<"2">>
TxtVoid == <<"x">>                                  \* a finish such as 中止
TxtTime == <<"1", ":", "0", "8", ".", "8">>
TxtPrizeTop == <<"1", "2", ",", "0", "0", "0", ".", "0">>
TxtPrizeLow == <<"7", "4", "0", ".", "0">>
TxtOdds == <<"3", ".", "5">>
TxtPop == <<"3">>

\* number of result rows with at least ten cells in the document (input data)
HorsesIn(y, s) == (y + s) % 3

\* the rows of the document s of year y: HorsesIn(y, s) rows of ten cells or
\* more and, where there are two, a row of nine cells between them; the only
\* participant of a document with one row did not finish
RowsOf(y, s) ==
    LET n == HorsesIn(y, s)
        row(i) == [ncells |-> 21,
                   finish |-> IF n = 1 THEN TxtVoid ELSE IF i = 1 THEN Txt1 ELSE Txt2,
                   num |-> IF i = 1 THEN Txt1 ELSE Txt2,
                   time |-> IF n = 1 THEN <<>> ELSE TxtTime,
                   prize |-> IF i > 1 THEN <<>>
                             ELSE IF y % 2 = 0 THEN TxtPrizeTop ELSE TxtPrizeLow,
                   cells |-> <<[classes |-> {"txt_r"}, text |-> TxtOdds, span |-> None],
                               [classes |-> {"r3ml"}, text |-> TxtPop, span |-> Some(TxtPop)]>>]
        short == [ncells |-> 9, finish |-> Txt1, num |-> Txt1, time |-> <<>>,
                  prize |-> <<>>, cells |-> <<>>]
    IN IF n = 2 THEN <<row(1), short, row(2)>> ELSE [i \in 1..n |-> row(i)]

\* the soup of the document s of year y (input data): dated in its year;
\* documents of odd stem have a racedata block; a document without a
\* participant has no results table
Soup(y, s) ==
    [racedata |-> IF s % 2 = 1
                  THEN Some([course |-> IF y % 2 = 0
                                        THEN Some([surface |-> "da", distance |-> 1200])
                                        ELSE None,
                             condition |-> "ryo"])
                  ELSE None,
     date |-> Some(y),
     table |-> IF HorsesIn(y, s) = 0 THEN None ELSE Some(RowsOf(y, s))]

\* year_dir.glob('*.html'), sorted: the files of one year directory
HtmlFiles(y) ==
    LET q == Sorted(DOMAIN tree[y])
    IN [i \in DOMAIN q |-> [year |-> y, stem |-> q[i], kind |-> tree[y][q[i]]]]

\* parse_race_html_full once the file is read: race_info and horses from the
\* base name of the file and its soup
ParseSoup(race_id, name, soup) ==
    LET Result(decoded, course, horses, first_place) ==
       LET has_first == horses # <<>> /\ first_place # <<>>
           first_prize == first_place[1].prize_money
       IN
       [race_info |-> [race_id |-> race_id,
                       venue_code |-> decoded.venue_code,
                       venue_name |-> decoded.venue_name,
                       surface |-> IF course = None THEN None
                                   ELSE IF course[1].surface \in {"da", "dato"}
                                   THEN Some("dato")
                                   ELSE Some(course[1].surface),
                       distance |-> IF course = None THEN None
                                    ELSE Some(course[1].distance),
                       track_condition |-> IF soup.racedata = None THEN None
                                           ELSE Some(soup.racedata[1].condition),
                       date |-> soup.date,
                       first_prize |-> IF has_first THEN Some(first_prize) ELSE None,
                       race_level |-> IF has_first
                                      THEN Some(ClassifyRaceLevel(first_prize)[1])
                                      ELSE None,
                       level_score |-> IF has_first
                                       THEN Some(ClassifyRaceLevel(first_prize)[2])
                                       ELSE None,
                       horse_count |-> IF horses # <<>> THEN Some(Len(horses)) ELSE None],
        horses |-> horses]
        AfterRows(horses) ==
            Result(DecodeRaceId(name),
                   IF soup.racedata = None THEN None ELSE soup.racedata[1].course,
                   horses, FirstPlace(horses))
    IN AfterRows(IF soup.table = None THEN <<>>
                 ELSE ParseRows(race_id, soup.table[1], 1))

\* parse_race_html_full(html_path): the file is opened and parsed, or the
\* call raises
ParseRaceHtmlFull(html_file) ==
    LET Return(result) ==
            [raised |-> html_file.kind = "bad",
             race_info |-> result.race_info,
             horses |-> result.horses]
    IN Return(ParseSoup(html_file.stem, StemName(html_file.stem),
                        Soup(html_file.year, html_file.stem)))

----------------------------------------------------------------------------
(* Tree walker: parse_multiple_html_full *)

\* the "years" argument: None, or a list of years
YearsNone == [none |-> TRUE, list |-> <<>>]
YearsList(q) == [none |-> FALSE, list |-> q]

\* year_dirs: sorted existing directories, or the allow-list in the caller's
\* order, filtered to the directories that exist
YearDirs(years) ==
    IF years.none
    THEN Sorted(DOMAIN tree)
    ELSE SelectSeq(years.list, LAMBDA y : y \in DOMAIN tree)

RECURSIVE SumFiles(_, _)
SumFiles(year_dirs, j) ==
    IF j > Len(year_dirs) THEN 0
    ELSE Cardinality(DOMAIN tree[year_dirs[j]]) + SumFiles(year_dirs, j + 1)

\* total_files: an estimate under a cap, the file count otherwise
TotalFiles(year_dirs, limit_per_year) ==
    IF limit_per_year # 0
    THEN Len(year_dirs) * limit_per_year
    ELSE SumFiles(year_dirs, 1)

\* the locals of the walk before the first directory
WalkInit ==
    [race_list |-> <<>>, horse_list |-> <<>>, skipped |-> 0, processed |-> 0,
     year_count |-> 0, calls |-> <<>>, errors |-> <<>>]

\* a variant that leaves the distance out of the copy
WithRaceInfo_NoDistance(result) ==
    [i \in DOMAIN result.horses |->
        [race_id |-> result.horses[i].race_id,
         finish_position |-> result.horses[i].finish_position,
         horse_number |-> result.horses[i].horse_number,
         time_seconds |-> result.horses[i].time_seconds,
         odds |-> result.horses[i].odds,
         popularity |-> result.horses[i].popularity,
         prize_money |-> result.horses[i].prize_money,
         race_level |-> result.race_info.race_level,
         level_score |-> result.race_info.level_score,
         race_date |-> result.race_info.date,
         venue_code |-> result.race_info.venue_code,
         venue_name |-> result.race_info.venue_name,
         distance |-> None,
         surface |-> result.race_info.surface,
         track_condition |-> result.race_info.track_condition]]

\* each horse of a parsed document, with the race's fields copied onto it
WithRaceInfo(result) ==
    [i \in DOMAIN result.horses |->
        [race_id |-> result.horses[i].race_id,
         finish_position |-> result.horses[i].finish_position,
         horse_number |-> result.horses[i].horse_number,
         time_seconds |-> result.horses[i].time_seconds,
         odds |-> result.horses[i].odds,
         popularity |-> result.horses[i].popularity,
         prize_money |-> result.horses[i].prize_money,
         race_level |-> result.race_info.race_level,
         level_score |-> result.race_info.level_score,
         race_date |-> result.race_info.date,
         venue_code |-> result.race_info.venue_code,
         venue_name |-> result.race_info.venue_name,
         distance |-> result.race_info.distance,
         surface |-> result.race_info.surface,
         track_condition |-> result.race_info.track_condition]]

\* the periodic report inside the try block
ReportProgress(w, cb, total_files) ==
    IF cb /\ w.processed % Cadence = 0
    THEN [w EXCEPT !.calls = Append(@, <<w.processed, total_files, w.skipped>>)]
    ELSE w

\* a variant in which a failing document also discards the batch so far
OnParseError_DropsBatch(w, html_file) ==
    [w EXCEPT !.errors = Append(@, [year |-> html_file.year, stem |-> html_file.stem]),
              !.race_list = <<>>,
              !.horse_list = <<>>,
              !.processed = @ + 1,
              !.year_count = @ + 1]

\* a variant in which a failing document does not count against the cap
OnParseError_Uncounted(w, html_file) ==
    [w EXCEPT !.errors = Append(@, [year |-> html_file.year, stem |-> html_file.stem]),
              !.processed = @ + 1]

\* the except branch: the document is logged and counted, nothing is appended
OnParseError(w, html_file) ==
    [w EXCEPT !.errors = Append(@, [year |-> html_file.year, stem |-> html_file.stem]),
              !.processed = @ + 1,
              !.year_count = @ + 1]

\* a variant in which the skip test never fires
IsKnown_Never(race_id, existing_race_ids) == FALSE

\* the skip test on a document's race_id
IsKnown(race_id, existing_race_ids) ==
    existing_race_ids # {} /\ race_id \in existing_race_ids

\* one iteration of the inner loop, after the cap test
LoopBody(w, html_file, existing_race_ids, cb, total_files) ==
    LET race_id == html_file.stem
        Try(result) ==
            IF result.raised
            THEN OnParseError(w, html_file)
            ELSE ReportProgress(
                     [w EXCEPT !.race_list = Append(@, result.race_info),
                               !.horse_list = @ \o WithRaceInfo(result),
                               !.processed = @ + 1,
                               !.year_count = @ + 1],
                     cb, total_files)
    IN IF IsKnown(race_id, existing_race_ids)
       THEN [w EXCEPT !.skipped = @ + 1, !.processed = @ + 1]
       ELSE Try(ParseRaceHtmlFull(html_file))

\* a variant of the cap test that is off by one
CapReached_OffByOne(w, limit_per_year) ==
    limit_per_year # 0 /\ w.year_count > limit_per_year

\* the cap test at the head of the inner loop
CapReached(w, limit_per_year) ==
    limit_per_year # 0 /\ w.year_count >= limit_per_year

\* the report after the loops
FinalReport(w, cb, total_files) ==
    IF cb
    THEN [w EXCEPT !.calls = Append(@, <<w.processed, total_files, w.skipped>>)]
    ELSE w

\* the walk before the first year directory: year_dirs and total_files are
\* computed, the accumulators are empty
WalkStart(years, limit_per_year) ==
    [w |-> WalkInit,
     year_dirs |-> YearDirs(years),
     total_files |-> TotalFiles(YearDirs(years), limit_per_year),
     j |-> 0,            \* index of the current year directory, 0 before the first
     files |-> <<>>,     \* sorted files of the current year directory
     i |-> 1,            \* index of the next file
     returned |-> FALSE]

\* one step of the two nested loops: the next document of the current year
\* directory, or (at its end, or at the cap's break) the next year
\* directory, or (after the last directory) the final report and the return
WalkStep(st, cb, existing_race_ids, limit_per_year) ==
    IF st.j # 0 /\ st.i <= Len(st.files) /\ ~CapReached(st.w, limit_per_year)
    THEN [st EXCEPT !.w = LoopBody(st.w, st.files[st.i], existing_race_ids, cb,
                                   st.total_files),
                    !.i = @ + 1]
    ELSE IF st.j < Len(st.year_dirs)
    THEN [st EXCEPT !.w = [@ EXCEPT !.year_count = 0],
                    !.j = @ + 1,
                    !.files = HtmlFiles(st.year_dirs[st.j + 1]),
                    !.i = 1]
    ELSE [st EXCEPT !.w = FinalReport(st.w, cb, st.total_files),
                    !.returned = TRUE]

\* the walk run to its return
RECURSIVE WalkToReturn(_, _, _, _)
WalkToReturn(st, cb, existing_race_ids, limit_per_year) ==
    IF st.returned
    THEN st
    ELSE WalkToReturn(WalkStep(st, cb, existing_race_ids, limit_per_year),
                      cb, existing_race_ids, limit_per_year)

\* parse_multiple_html_full(html_dir, years, progress_callback,
\*                          existing_race_ids, limit_per_year)
ParseMultipleHtmlFull(years, cb, existing_race_ids, limit_per_year) ==
    WalkToReturn(WalkStart(years, limit_per_year), cb, existing_race_ids,
                 limit_per_year).w

----------------------------------------------------------------------------
(* Persisted tables and the incremental mergers *)

NoTable == [exists |-> FALSE, rows |-> <<>>]
Table(rows) == [exists |-> TRUE, rows |-> rows]

\* set(existing_df['race_id'].astype(str).tolist())
RaceIds(rows) == {rows[i].race_id : i \in DOMAIN rows}

\* pd.concat([existing_df, new_df], ignore_index=True)
Concat(existing_df, new_df) == existing_df \o new_df

\* the result of one merge call: whether it raised, what it returned, the
\* tables it leaves on disk and the batch of the walk it ran
MergeResult(raised, ret, races, results, w) ==
    [raised |-> raised, ret |-> ret, races |-> races, results |-> results,
     new_races |-> w.race_list, new_horses |-> w.horse_list,
     calls |-> w.calls, skipped |-> w.skipped, processed |-> w.processed]

\* a variant of parse_incremental_parquet without the early return on an
\* empty batch
ParseIncrementalParquet_AlwaysWrites(races, results, years, limit_per_year) ==
    LET existing_race_ids == IF races.exists THEN RaceIds(races.rows) ELSE {}
        AfterWalk(w) ==
            IF races.exists /\ ~results.exists
            THEN MergeResult(TRUE, <<0, 0>>, races, results, WalkInit)
            ELSE IF races.exists
            THEN MergeResult(FALSE, <<Len(w.race_list), Len(w.horse_list)>>,
                             Table(Concat(races.rows, w.race_list)),
                             Table(Concat(results.rows, w.horse_list)), w)
            ELSE MergeResult(FALSE, <<Len(w.race_list), Len(w.horse_list)>>,
                             Table(w.race_list), Table(w.horse_list), w)
    IN AfterWalk(ParseMultipleHtmlFull(years, TRUE, existing_race_ids, limit_per_year))

\* parse_incremental_parquet, run alone from the tables (races, results)
ParseIncrementalParquet(races, results, years, limit_per_year) ==
    LET existing_race_ids == IF races.exists THEN RaceIds(races.rows) ELSE {}
        AfterWalk(w) ==
            IF races.exists /\ ~results.exists
            THEN \* pd.read_parquet(results_parquet) raises before the walk
                 MergeResult(TRUE, <<0, 0>>, races, results, WalkInit)
            ELSE IF Len(w.race_list) = 0
            THEN MergeResult(FALSE, <<0, 0>>, races, results, w)
            ELSE IF races.exists
            THEN MergeResult(FALSE, <<Len(w.race_list), Len(w.horse_list)>>,
                             Table(Concat(races.rows, w.race_list)),
                             Table(Concat(results.rows, w.horse_list)), w)
            ELSE MergeResult(FALSE, <<Len(w.race_list), Len(w.horse_list)>>,
                             Table(w.race_list), Table(w.horse_list), w)
    IN AfterWalk(ParseMultipleHtmlFull(years, TRUE, existing_race_ids, limit_per_year))

\* parse_incremental (CSV), run alone from the tables (races, results)
ParseIncremental(races, results, years) ==
    LET existing_race_ids == IF races.exists THEN RaceIds(races.rows) ELSE {}
        AfterWalk(w) ==
            IF Len(w.race_list) = 0
            THEN MergeResult(FALSE, <<0, 0>>, races, results, w)
            ELSE IF races.exists /\ ~results.exists
            THEN \* pd.read_csv(results_csv) raises after the walk, before any write
                 MergeResult(TRUE, <<0, 0>>, races, results, w)
            ELSE IF races.exists
            THEN MergeResult(FALSE, <<Len(w.race_list), Len(w.horse_list)>>,
                             Table(Concat(races.rows, w.race_list)),
                             Table(Concat(results.rows, w.horse_list)), w)
            ELSE MergeResult(FALSE, <<Len(w.race_list), Len(w.horse_list)>>,
                             Table(w.race_list), Table(w.horse_list), w)
    IN AfterWalk(ParseMultipleHtmlFull(years, TRUE, existing_race_ids, 0))

----------------------------------------------------------------------------
(* Inputs *)

\* a year directory: the files present and whether each one parses
YearDirsOver(S) == UNION {[F -> {"ok", "bad"}] : F \in SUBSET S}

\* document trees: some of the year directories exist
Trees == UNION {[D -> YearDirsOver(Stems)] : D \in SUBSET Years}

\* one long year directory of n documents that all parse, but for document p
LongTree(n, p, kind) ==
    [y \in {2020} |-> [s \in 1..n |-> IF s = p THEN kind ELSE "ok"]]

LongSizes == (Cadence - 1)..(Cadence + ExtraDocs)

\* the "years" argument: None, or an allow-list of distinct years in any
\* order (a year named twice would be walked twice)
YearsArgs == {YearsNone} \cup {YearsList(q) : q \in InjSeqs(Years)}

\* the "limit_per_year" argument: 0 stands for None (and for 0, also falsy)
Limits == 0..MaxLimit

\* rows persisted by an earlier run over a document 2020/1
OldDoc == [year |-> 2020, stem |-> 1, kind |-> "ok"]
OldRaces == <<ParseRaceHtmlFull(OldDoc).race_info>>
OldResults == WithRaceInfo(ParseRaceHtmlFull(OldDoc))

NoArgs == [years |-> YearsNone, limit |-> 0, cb |-> FALSE, existing |-> {}]

LastInit ==
    [called |-> FALSE, pre_races |-> NoTable, pre_results |-> NoTable,
     raised |-> FALSE, ret |-> <<0, 0>>,
     new_races |-> <<>>, new_horses |-> <<>>, calls |-> <<>>,
     skipped |-> 0, processed |-> 0]

WalkIdle ==
    [w |-> WalkInit, year_dirs |-> <<>>, total_files |-> 0, j |-> 0,
     files |-> <<>>, i |-> 1, returned |-> FALSE]

Procs == {1, 2}

\* the locals of a merge call before its first statement
Locals(years, limit_per_year) ==
    [years |-> years, limit |-> limit_per_year,
     existing_race_ids |-> {},
     has_existing |-> FALSE,        \* existing_races_df is not None
     existing_races_df |-> <<>>,
     existing_results_df |-> <<>>,
     new_races |-> <<>>, new_horses |-> <<>>,
     ret |-> <<0, 0>>]

IdleConc ==
    /\ pc = [p \in Procs |-> "idle"]
    /\ loc = [p \in Procs |-> Locals(YearsNone, 0)]

IdleWalk ==
    /\ args = NoArgs
    /\ runs = 0
    /\ wk = WalkIdle

\* no function is called directly
IdleCall ==
    /\ inp = None
    /\ out = None

\* the data loader was imported and none of its functions called:
\* _races_df = None, _results_df = None
NoCache == [races_df |-> None, results_df |-> None]

IdleLoader ==
    /\ cache = NoCache
    /\ hist = <<>>

\* a run starts with no persisted table
Init ==
    /\ tree \in Trees
    /\ fmt \in {"csv", "parquet"}
    /\ races_tbl = NoTable
    /\ results_tbl = NoTable
    /\ last = LastInit
    /\ IdleConc
    /\ IdleWalk
    /\ IdleCall
    /\ IdleLoader

\* a run starts from any pair of paths: each table exists or not
InitStore ==
    /\ tree \in Trees
    /\ fmt \in {"csv", "parquet"}
    /\ races_tbl \in {NoTable, Table(OldRaces)}
    /\ results_tbl \in {NoTable, Table(OldResults)}
    /\ last = LastInit
    /\ IdleConc
    /\ IdleWalk
    /\ IdleCall
    /\ IdleLoader

\* a merge is about to be repeated with fixed arguments (the CSV merger has no cap)
InitRepeat ==
    /\ tree \in Trees
    /\ fmt \in {"csv", "parquet"}
    /\ races_tbl \in {NoTable, Table(OldRaces)}
    /\ results_tbl \in {NoTable, Table(OldResults)}
    /\ last = LastInit
    /\ IdleConc
    /\ args \in [years : YearsArgs, limit : Limits, cb : {TRUE}, existing : {{}}]
    /\ fmt = "csv" => args.limit = 0
    /\ runs = 0
    /\ wk = WalkIdle
    /\ IdleCall
    /\ IdleLoader

\* a direct call of the walker: a small tree with any set of known ids, or a
\* long directory in which document p is known, unreadable or like the others
InitWalk ==
    /\ fmt = "parquet"
    /\ races_tbl = NoTable
    /\ results_tbl = NoTable
    /\ last = LastInit
    /\ IdleConc
    /\ runs = 0
    /\ \/ /\ tree \in Trees
          /\ args \in [years : YearsArgs, limit : Limits, cb : {TRUE},
                       existing : SUBSET Stems]
       \/ \E n \in LongSizes, p \in LongSizes, kind \in {"ok", "bad", "known"} :
             /\ p <= n
             /\ tree = LongTree(n, p, IF kind = "bad" THEN "bad" ELSE "ok")
             /\ args \in [years : {YearsNone}, limit : {0}, cb : BOOLEAN,
                          existing : {IF kind = "known" THEN {p} ELSE {}}]
    /\ wk = WalkStart(args.years, args.limit)
    /\ IdleCall
    /\ IdleLoader

----------------------------------------------------------------------------
(* Sequential merges *)

\* the effect of one merge call on the persisted tables, and its outcome
MergeStep(r) ==
    /\ races_tbl' = r.races
    /\ results_tbl' = r.results
    /\ last' = [called |-> TRUE, pre_races |-> races_tbl, pre_results |-> results_tbl,
                raised |-> r.raised, ret |-> r.ret,
                new_races |-> r.new_races, new_horses |-> r.new_horses,
                calls |-> r.calls, skipped |-> r.skipped, processed |-> r.processed]

CallParseIncrementalParquet ==
    /\ fmt = "parquet"
    /\ \E years \in YearsArgs, limit_per_year \in Limits :
          MergeStep(ParseIncrementalParquet(races_tbl, results_tbl, years, limit_per_year))
    /\ UNCHANGED <<tree, fmt, pc, loc, args, runs, wk, inp, out, cache, hist>>

CallParseIncremental ==
    /\ fmt = "csv"
    /\ \E years \in YearsArgs :
          MergeStep(ParseIncremental(races_tbl, results_tbl, years))
    /\ UNCHANGED <<tree, fmt, pc, loc, args, runs, wk, inp, out, cache, hist>>

Next ==
    \/ CallParseIncrementalParquet
    \/ CallParseIncremental

Spec == Init /\ [][Next]_vars

SpecStore == InitStore /\ [][Next]_vars

----------------------------------------------------------------------------
(* The same merge call, repeated *)

RepeatParseIncrementalParquet ==
    /\ fmt = "parquet"
    /\ runs < MaxRuns
    /\ MergeStep(ParseIncrementalParquet(races_tbl, results_tbl, args.years, args.limit))
    /\ runs' = runs + 1
    /\ UNCHANGED <<tree, fmt, pc, loc, args, wk, inp, out, cache, hist>>

RepeatParseIncremental ==
    /\ fmt = "csv"
    /\ runs < MaxRuns
    /\ MergeStep(ParseIncremental(races_tbl, results_tbl, args.years))
    /\ runs' = runs + 1
    /\ UNCHANGED <<tree, fmt, pc, loc, args, wk, inp, out, cache, hist>>

NextRepeat ==
    \/ RepeatParseIncrementalParquet
    \/ RepeatParseIncremental

SpecRepeat == InitRepeat /\ [][NextRepeat]_vars

----------------------------------------------------------------------------
(* A direct call of parse_multiple_html_full *)

\* the walk advances by one document, one directory or its return
StepParseMultipleHtmlFull ==
    /\ ~wk.returned
    /\ wk' = WalkStep(wk, args.cb, args.existing, args.limit)
    /\ UNCHANGED <<tree, fmt, races_tbl, results_tbl, last, pc, loc, args, runs, inp, out, cache, hist>>

NextWalk == StepParseMultipleHtmlFull

SpecWalk == InitWalk /\ [][NextWalk]_vars

----------------------------------------------------------------------------
(* Two merge calls running at once against the same pair of tables.  The   *)
(* source takes no lock and has no other synchronisation: each statement   *)
(* that reads or writes a file is one step, and the steps of the two calls *)
(* interleave freely.                                                      *)

\* two calls are about to start; the tables are absent or hold an earlier run
InitConc ==
    /\ tree \in Trees
    /\ fmt \in {"csv", "parquet"}
    /\ \/ races_tbl = NoTable /\ results_tbl = NoTable
       \/ races_tbl = Table(OldRaces) /\ results_tbl = Table(OldResults)
    /\ last = LastInit
    /\ pc = [p \in Procs |-> "start"]
    /\ loc \in [Procs -> {Locals(y, 0) : y \in {YearsNone, YearsList(<<2020>>),
                                               YearsList(<<2021>>)}}]
    /\ IdleWalk
    /\ IdleCall
    /\ IdleLoader

Goto(p, label) == pc' = [pc EXCEPT ![p] = label]

ConcFrame == UNCHANGED <<tree, fmt, last, args, runs, wk, inp, out, cache, hist>>

\* parquet: "if races_parquet.exists(): existing_races_df = read_parquet(...)"
\* csv: "if races_csv.exists(): existing_df = read_csv(..., usecols=['race_id'])"
ReadRaces(p) ==
    /\ pc[p] = "start"
    /\ IF races_tbl.exists
       THEN /\ loc' = [loc EXCEPT ![p].existing_race_ids = RaceIds(races_tbl.rows),
                                  ![p].has_existing = (fmt = "parquet"),
                                  ![p].existing_races_df =
                                      IF fmt = "parquet" THEN races_tbl.rows ELSE <<>>]
            /\ Goto(p, IF fmt = "parquet" THEN "read_results" ELSE "walk")
       ELSE /\ loc' = loc
            /\ Goto(p, "walk")
    /\ UNCHANGED <<races_tbl, results_tbl>>
    /\ ConcFrame

\* parquet: "existing_results_df = pd.read_parquet(results_parquet)"
ReadResults(p) ==
    /\ pc[p] = "read_results"
    /\ IF results_tbl.exists
       THEN /\ loc' = [loc EXCEPT ![p].existing_results_df = results_tbl.rows]
            /\ Goto(p, "walk")
       ELSE /\ loc' = loc
            /\ Goto(p, "raised")
    /\ UNCHANGED <<races_tbl, results_tbl>>
    /\ ConcFrame

\* "new_races, new_horses = parse_multiple_html_full(...)" and the early
\* return on an empty batch
Walk(p) ==
    /\ pc[p] = "walk"
    /\ LET w == ParseMultipleHtmlFull(loc[p].years, TRUE, loc[p].existing_race_ids,
                                      loc[p].limit)
       IN IF Len(w.race_list) = 0
          THEN /\ loc' = loc
               /\ Goto(p, "returned")
          ELSE /\ loc' = [loc EXCEPT ![p].new_races = w.race_list,
                                     ![p].new_horses = w.horse_list,
                                     ![p].ret = <<Len(w.race_list), Len(w.horse_list)>>]
               /\ Goto(p, IF fmt = "parquet" THEN "write_races" ELSE "reread_races")
    /\ UNCHANGED <<races_tbl, results_tbl>>
    /\ ConcFrame

\* csv: "if races_csv.exists(): existing_races_df = pd.read_csv(races_csv)"
RereadRaces(p) ==
    /\ pc[p] = "reread_races"
    /\ IF races_tbl.exists
       THEN /\ loc' = [loc EXCEPT ![p].has_existing = TRUE,
                                  ![p].existing_races_df = races_tbl.rows]
            /\ Goto(p, "reread_results")
       ELSE /\ loc' = loc
            /\ Goto(p, "write_races")
    /\ UNCHANGED <<races_tbl, results_tbl>>
    /\ ConcFrame

\* csv: "existing_results_df = pd.read_csv(results_csv)"
RereadResults(p) ==
    /\ pc[p] = "reread_results"
    /\ IF results_tbl.exists
       THEN /\ loc' = [loc EXCEPT ![p].existing_results_df = results_tbl.rows]
            /\ Goto(p, "write_races")
       ELSE /\ loc' = loc
            /\ Goto(p, "raised")
    /\ UNCHANGED <<races_tbl, results_tbl>>
    /\ ConcFrame

\* "combined_races_df.to_parquet(races_parquet)" / ".to_csv(races_csv)"
WriteRaces(p) ==
    /\ pc[p] = "write_races"
    /\ races_tbl' = Table(IF loc[p].has_existing
                          THEN Concat(loc[p].existing_races_df, loc[p].new_races)
                          ELSE loc[p].new_races)
    /\ Goto(p, "write_results")
    /\ UNCHANGED <<results_tbl, loc>>
    /\ ConcFrame

\* "combined_results_df.to_parquet(results_parquet)" / ".to_csv(results_csv)"
WriteResults(p) ==
    /\ pc[p] = "write_results"
    /\ results_tbl' = Table(IF loc[p].has_existing
                            THEN Concat(loc[p].existing_results_df, loc[p].new_horses)
                            ELSE loc[p].new_horses)
    /\ Goto(p, "returned")
    /\ UNCHANGED <<races_tbl, loc>>
    /\ ConcFrame

NextConc ==
    \E p \in Procs :
        \/ ReadRaces(p)
        \/ ReadResults(p)
        \/ Walk(p)
        \/ RereadRaces(p)
        \/ RereadResults(p)
        \/ WriteRaces(p)
        \/ WriteResults(p)

SpecConc == InitConc /\ [][NextConc]_vars

----------------------------------------------------------------------------
(* One caller that runs the merge again and again over the same tree, the  *)
(* walk of each run advancing by one document per step.                    *)

\* "new_races, new_horses = parse_multiple_html_full(...)": the call
WalkBegin(p) ==
    /\ pc[p] = "walk"
    /\ wk' = WalkStart(loc[p].years, loc[p].limit)
    /\ Goto(p, "walking")
    /\ UNCHANGED <<tree, fmt, races_tbl, results_tbl, last, loc, args, runs, inp, out, cache, hist>>

\* one step of the walk
WalkOn(p) ==
    /\ pc[p] = "walking"
    /\ ~wk.returned
    /\ wk' = WalkStep(wk, TRUE, loc[p].existing_race_ids, loc[p].limit)
    /\ UNCHANGED <<tree, fmt, races_tbl, results_tbl, last, pc, loc, args, runs, inp, out, cache, hist>>

\* the return of the walk, and the early return of the merge on an empty batch
WalkEnd(p) ==
    /\ pc[p] = "walking"
    /\ wk.returned
    /\ IF Len(wk.w.race_list) = 0
       THEN /\ loc' = loc
            /\ Goto(p, "returned")
       ELSE /\ loc' = [loc EXCEPT ![p].new_races = wk.w.race_list,
                                  ![p].new_horses = wk.w.horse_list,
                                  ![p].ret = <<Len(wk.w.race_list), Len(wk.w.horse_list)>>]
            /\ Goto(p, IF fmt = "parquet" THEN "write_races" ELSE "reread_races")
    /\ wk' = WalkIdle
    /\ UNCHANGED <<tree, fmt, races_tbl, results_tbl, last, args, runs, inp, out, cache, hist>>

\* the write of the participant table raises (the disk is full, the process
\* is stopped): the file is left as it was and the merge ends there
WriteResultsRaises(p) ==
    /\ pc[p] = "write_results"
    /\ Goto(p, "raised")
    /\ UNCHANGED <<races_tbl, results_tbl, loc>>
    /\ ConcFrame

\* the caller runs the merge once more with the same arguments
Again(p) ==
    /\ pc[p] \in {"returned", "raised"}
    /\ Goto(p, "start")
    /\ loc' = [loc EXCEPT ![p] = Locals(loc[p].years, loc[p].limit)]
    /\ UNCHANGED <<races_tbl, results_tbl>>
    /\ ConcFrame

\* one caller; the store is empty; the parquet merge is given a cap
InitProgress ==
    /\ tree \in Trees
    /\ fmt = "parquet"
    /\ races_tbl = NoTable
    /\ results_tbl = NoTable
    /\ last = LastInit
    /\ pc = [p \in Procs |-> IF p = 1 THEN "start" ELSE "idle"]
    /\ \E years \in YearsArgs, limit_per_year \in 1..MaxLimit :
          loc = [p \in Procs |-> IF p = 1 THEN Locals(years, limit_per_year)
                                          ELSE Locals(YearsNone, 0)]
    /\ IdleWalk
    /\ IdleCall
    /\ IdleLoader

NextProgress ==
    \/ ReadRaces(1)
    \/ ReadResults(1)
    \/ WalkBegin(1)
    \/ WalkOn(1)
    \/ WalkEnd(1)
    \/ WriteRaces(1)
    \/ WriteResults(1)
    \/ Again(1)

\* the steps of a run other than those of its walk, and the next run
RunSteps ==
    \/ ReadRaces(1)
    \/ ReadResults(1)
    \/ WalkBegin(1)
    \/ WalkEnd(1)
    \/ WriteRaces(1)
    \/ WriteResults(1)
    \/ Again(1)

\* WalkOn(1) is enabled, and every step of it changes wk
Walking == pc[1] = "walking" /\ ~wk.returned

\* the caller never stops: each run goes on to its end and is followed by
\* another.  The weak fairness of WalkOn(1) is stated through its enabling
\* condition: a walk takes finitely many steps, so it is weakly fair exactly
\* when it is not left unfinished forever.
SpecProgress ==
    InitProgress /\ [][NextProgress]_vars /\ WF_vars(RunSteps) /\ []<>~Walking

\* one caller of either merge; the store is empty or holds an earlier run;
\* the write of the participant table may raise
InitCrash ==
    /\ tree \in Trees
    /\ fmt \in {"csv", "parquet"}
    /\ \/ races_tbl = NoTable /\ results_tbl = NoTable
       \/ races_tbl = Table(OldRaces) /\ results_tbl = Table(OldResults)
    /\ last = LastInit
    /\ pc = [p \in Procs |-> IF p = 1 THEN "start" ELSE "idle"]
    /\ \E years \in YearsArgs, limit_per_year \in Limits :
          /\ fmt = "csv" => limit_per_year = 0
          /\ loc = [p \in Procs |-> IF p = 1 THEN Locals(years, limit_per_year)
                                             ELSE Locals(YearsNone, 0)]
    /\ IdleWalk
    /\ IdleCall
    /\ IdleLoader

NextCrash ==
    \/ ReadRaces(1)
    \/ ReadResults(1)
    \/ WalkBegin(1)
    \/ WalkOn(1)
    \/ WalkEnd(1)
    \/ RereadRaces(1)
    \/ RereadResults(1)
    \/ WriteRaces(1)
    \/ WriteResults(1)
    \/ WriteResultsRaises(1)
    \/ Again(1)

SpecCrash == InitCrash /\ [][NextCrash]_vars

----------------------------------------------------------------------------
(* Claims about the incremental mergers *)

\* the last call was a merge that returned normally
Merged == last.called /\ ~last.raised

\* C1: every merge that finds at least one new event leaves the event table
\* equal to the prior event rows (none when no table existed) followed by the
\* new batch, and the participant table likewise.
C1_AppendOnly ==
    (Merged /\ last.new_races # <<>>) =>
        /\ races_tbl = Table(Concat(last.pre_races.rows, last.new_races))
        /\ results_tbl = Table(Concat(last.pre_results.rows, last.new_horses))

NoDuplicateIds(rows) ==
    \A i, j \in DOMAIN rows : i # j => rows[i].race_id # rows[j].race_id

\* C2: starting from an empty store, no event_id is in two rows of the
\* persisted event table, and no merge parses an event_id that was already
\* persisted before it.
C2_UniqueEventIds ==
    /\ NoDuplicateIds(races_tbl.rows)
    /\ RaceIds(last.new_races) \cap RaceIds(last.pre_races.rows) = {}

\* C3 as stated: a second run of the merge with the same arguments returns
\* (0, 0) and leaves both tables as the first run left them, whatever the
\* per-year cap.
C3_IdempotentAnyCap ==
    (runs >= 2 /\ Merged) =>
        /\ last.ret = <<0, 0>>
        /\ races_tbl = last.pre_races
        /\ results_tbl = last.pre_results

\* C3 as amended: without a per-year cap, a second run of the merge with the
\* same arguments returns (0, 0) and leaves both tables as the first run left
\* them.
C3_IdempotentNoCap ==
    (runs >= 2 /\ Merged /\ args.limit = 0) =>
        /\ last.ret = <<0, 0>>
        /\ races_tbl = last.pre_races
        /\ results_tbl = last.pre_results

\* a second uncapped run over a store to which the first run appended rows
C3_Witness ==
    /\ runs = 2
    /\ Merged
    /\ args.limit = 0
    /\ last.skipped > 0
    /\ Len(races_tbl.rows) > Len(OldRaces)

\* C4: a merge whose walk yields no new event returns (0, 0) and writes
\* nothing: both tables are as before, and a missing table is not created.
C4_EmptyBatchNoWrite ==
    (Merged /\ last.new_races = <<>>) =>
        /\ last.ret = <<0, 0>>
        /\ races_tbl = last.pre_races
        /\ results_tbl = last.pre_results

\* a merge that skipped every candidate document as already persisted
C4_Witness ==
    /\ Merged
    /\ last.new_races = <<>>
    /\ last.skipped > 0
    /\ races_tbl.exists

\* C5: when exactly one of the two tables exists at the start of a merge, the
\* merge raises and writes nothing.
C5_InconsistentStoreFails ==
    (last.called /\ last.pre_races.exists # last.pre_results.exists) =>
        /\ last.raised
        /\ races_tbl = last.pre_races
        /\ results_tbl = last.pre_results

\* the race_ids of the readable documents in the year directories of the call
ReadableIds ==
    UNION {{s \in DOMAIN tree[y] : tree[y][s] = "ok"} : y \in Range(YearDirs(loc[1].years))}

\* every readable document of the call is in the persisted event table
AllReadableIngested == ReadableIds \subseteq RaceIds(races_tbl.rows)

\* C19: with a per-year cap, repeating parse_incremental_parquet over a fixed
\* tree eventually brings the event_id of every readable document into the
\* persisted event table, and from then on every run returns (0, 0); also
\* when unreadable documents sort before readable ones.
C19_EveryReadableDocumentIsIngested ==
    <>[](AllReadableIngested /\ (pc[1] = "returned" => loc[1].ret = <<0, 0>>))

\* the event rows that have participants
WithParticipants(rows) == {i \in DOMAIN rows : rows[i].horse_count # None}

\* C20: the merge updates both tables or neither: whenever a merge call has
\* ended, by a return or by a raise, every event of the event table that has
\* participants has its participant rows in the participant table.
C20_BothTablesOrNeither ==
    (pc[1] \in {"returned", "raised"}) =>
        \A i \in WithParticipants(races_tbl.rows) :
            Cardinality({k \in DOMAIN results_tbl.rows :
                            /\ results_tbl.rows[k].race_id = races_tbl.rows[i].race_id
                            /\ results_tbl.rows[k].race_date = races_tbl.rows[i].date})
                >= races_tbl.rows[i].horse_count[1]

----------------------------------------------------------------------------
(* Claims about the tree walker, stated on a direct call with arguments args *)

\* the document's race_id is in the set of already-ingested ids
Known(s) == s \in args.existing

\* the documents of year y that sort before s and are not already known
AttemptedBefore(y, s) == {s2 \in DOMAIN tree[y] : s2 < s /\ ~Known(s2)}

\* the documents in scope: in a year directory of the call, and (under a
\* cap) with fewer than limit_per_year unknown documents sorting before them
InScope ==
    {d \in UNION {{<<y, s>> : s \in DOMAIN tree[y]} : y \in Range(YearDirs(args.years))} :
        args.limit = 0 \/ Cardinality(AttemptedBefore(d[1], d[2])) < args.limit}

RaceRowsOf(d) ==
    {i \in DOMAIN wk.w.race_list :
        wk.w.race_list[i].race_id = d[2] /\ wk.w.race_list[i].date = Some(d[1])}

HorseRowsOf(d) ==
    {i \in DOMAIN wk.w.horse_list :
        wk.w.horse_list[i].race_id = d[2] /\ wk.w.horse_list[i].race_date = Some(d[1])}

AllDocs == UNION {{<<y, s>> : s \in DOMAIN tree[y]} : y \in DOMAIN tree}

RowBefore(a, b) ==
    \/ a[1] < b[1]
    \/ a[1] = b[1] /\ a[2] < b[2]

\* C8: the returned event rows and participant rows are in ascending year
\* order and, within a year, in ascending file-name order, whether all years
\* are walked or an allow-list is given in any order.
C8_YearsAscending ==
    wk.returned =>
        /\ \A i, j \in DOMAIN wk.w.race_list :
              i < j => RowBefore(<<wk.w.race_list[i].date[1], wk.w.race_list[i].race_id>>,
                                 <<wk.w.race_list[j].date[1], wk.w.race_list[j].race_id>>)
        /\ \A i, j \in DOMAIN wk.w.horse_list :
              i < j => ~RowBefore(<<wk.w.horse_list[j].race_date[1], wk.w.horse_list[j].race_id>>,
                                  <<wk.w.horse_list[i].race_date[1], wk.w.horse_list[i].race_id>>)

\* C9: with a callback, there is one report for every multiple of the cadence
\* that the processed count reaches, whatever the document that reached it,
\* and one more after the last document carrying the final counts.
C9_ReportAtEveryCadence ==
    (wk.returned /\ args.cb) =>
        LET k == wk.w.processed \div Cadence
        IN /\ Len(wk.w.calls) = k + 1
           /\ \A i \in 1..k : wk.w.calls[i][1] = i * Cadence
           /\ wk.w.calls[k + 1][1] = wk.w.processed
           /\ wk.w.calls[k + 1][3] = wk.w.skipped

\* C10: a document whose extraction raises contributes no event row and no
\* participant row and is logged, and every other new in-scope document
\* contributes its event row and all its participant rows.
C10_FailuresIsolated ==
    wk.returned =>
        \A d \in InScope :
            ~Known(d[2]) =>
                IF tree[d[1]][d[2]] = "bad"
                THEN /\ RaceRowsOf(d) = {}
                     /\ HorseRowsOf(d) = {}
                     /\ [year |-> d[1], stem |-> d[2]] \in Range(wk.w.errors)
                ELSE /\ Cardinality(RaceRowsOf(d)) = 1
                     /\ Cardinality(HorseRowsOf(d)) = HorsesIn(d[1], d[2])

\* a walk that returned rows of a document sorting after a failed one in the
\* same year directory
C10_Witness ==
    /\ wk.returned
    /\ \E e \in Range(wk.w.errors), i \in DOMAIN wk.w.horse_list :
          /\ wk.w.horse_list[i].race_date = Some(e.year)
          /\ wk.w.horse_list[i].race_id > e.stem

\* the participant row carries the id and the denormalized fields of the
\* event row
CarriesEvent(horse, race_info) ==
    /\ horse.race_id = race_info.race_id
    /\ horse.race_date = race_info.date
    /\ horse.surface = race_info.surface
    /\ horse.distance = race_info.distance
    /\ horse.track_condition = race_info.track_condition
    /\ horse.venue_code = race_info.venue_code
    /\ horse.venue_name = race_info.venue_name
    /\ horse.race_level = race_info.race_level
    /\ horse.level_score = race_info.level_score

\* C14: every participant row returned by the walk carries the event_id of
\* an event row of the same batch, and its date, surface, distance, track
\* condition, venue code and name and importance level and score are those
\* of that event row, absent where the event's field is absent.
C14_ParticipantsCarryTheirEvent ==
    wk.returned =>
        \A i \in DOMAIN wk.w.horse_list :
            \E k \in DOMAIN wk.w.race_list :
                CarriesEvent(wk.w.horse_list[i], wk.w.race_list[k])

\* a walk that returned a participant of an event with a distance and a
\* level, and a participant of an event without them
C14_Witness ==
    /\ wk.returned
    /\ \E i \in DOMAIN wk.w.horse_list :
          /\ wk.w.horse_list[i].distance = Some(1200)
          /\ wk.w.horse_list[i].race_level = Some("S")
          /\ wk.w.horse_list[i].venue_name = "Sapporo"
    /\ \E i \in DOMAIN wk.w.horse_list :
          /\ wk.w.horse_list[i].distance = None
          /\ wk.w.horse_list[i].race_level = None

\* the documents of year directory y that the walk attempted: parsed or failed
AttemptedIn(y) ==
    Cardinality({i \in DOMAIN wk.w.race_list : wk.w.race_list[i].date = Some(y)})
    + Cardinality({i \in DOMAIN wk.w.errors : wk.w.errors[i].year = y})

SkippedWithinProcessed ==
    \A i \in DOMAIN wk.w.calls : wk.w.calls[i][3] <= wk.w.calls[i][1]

\* the processed count of the reports made so far never decreases
ProcessedNeverDecreases ==
    \A i, j \in DOMAIN wk.w.calls : i < j => wk.w.calls[i][1] <= wk.w.calls[j][1]

\* the reports made so far keep processed <= total
ProcessedWithinTotal ==
    \A i \in DOMAIN wk.w.calls : wk.w.calls[i][1] <= wk.w.calls[i][2]

\* the same, for the walks without a cap only
ProcessedWithinTotalNoCap ==
    args.limit = 0 => ProcessedWithinTotal

\* C21: in every report of the walk, skipped <= processed <= total, and the
\* processed count never decreases from one report to the next, with and
\* without a per-year cap and with any number of known documents.
C21_ReportWithinBounds ==
    /\ SkippedWithinProcessed
    /\ ProcessedWithinTotal
    /\ ProcessedNeverDecreases

----------------------------------------------------------------------------
(* Claim about concurrent merges *)

TimesIn(rows, r) == Cardinality({i \in DOMAIN rows : rows[i] = r})

\* C6: two merge calls against the same tables are serialized, so that after
\* any interleaving of the two, once both have returned, every event row and
\* participant row that either call appended is in the persisted tables,
\* and is there once.
C6_NoRowLostOrDuplicated ==
    (\A p \in Procs : pc[p] = "returned") =>
        \A p \in Procs :
            /\ \A r \in Range(loc[p].new_races) : TimesIn(races_tbl.rows, r) = 1
            /\ \A r \in Range(loc[p].new_horses) : TimesIn(results_tbl.rows, r) = 1

----------------------------------------------------------------------------
(* Direct calls of one function.  The store, the tree and the walk take no *)
(* part: the state is the argument and, once the call returned, its result *)

IdleStore ==
    /\ tree = <<>>
    /\ fmt = "parquet"
    /\ races_tbl = NoTable
    /\ results_tbl = NoTable
    /\ last = LastInit

CallFrame ==
    UNCHANGED <<tree, fmt, races_tbl, results_tbl, last, pc, loc, args, runs, wk, inp,
                cache, hist>>

\* amounts tried, in tenths: 0 .. MaxAmount
MaxAmount == 100010

InitClassify ==
    /\ IdleStore
    /\ IdleLoader
    /\ IdleConc
    /\ IdleWalk
    /\ inp \in 0..MaxAmount
    /\ out = None

CallClassifyRaceLevel ==
    /\ out = None
    /\ out' = Some(ClassifyRaceLevel(inp))
    /\ CallFrame

NextClassify == CallClassifyRaceLevel

SpecClassify == InitClassify /\ [][NextClassify]_vars

\* the six-tier table, as a function of the amount in tenths
TierOf(amount) ==
    CASE amount >= 10000 * Unit -> <<"S", 6>>
      [] amount < 10000 * Unit /\ amount >= 5000 * Unit -> <<"A", 5>>
      [] amount < 5000 * Unit /\ amount >= 3000 * Unit -> <<"B", 4>>
      [] amount < 3000 * Unit /\ amount >= 1500 * Unit -> <<"C", 3>>
      [] amount < 1500 * Unit /\ amount >= 750 * Unit -> <<"D", 2>>
      [] amount < 750 * Unit -> <<"E", 1>>

\* C11: classify_race_level maps every non-negative amount to the one tier
\* of the six-tier table whose range holds it, a boundary amount belonging to
\* the higher tier, and the score does not decrease when the amount grows.
C11_SixTierTable ==
    out # None =>
        /\ out[1] = TierOf(inp)
        /\ inp > 0 => ClassifyRaceLevel(inp - 1)[2] <= out[1][2]
        /\ inp = 10000 * Unit => out[1] = <<"S", 6>>
        /\ inp = 10000 * Unit - Unit => out[1] = <<"A", 5>>
        /\ inp = 5000 * Unit => out[1] = <<"A", 5>>
        /\ inp = 5000 * Unit - Unit => out[1] = <<"B", 4>>
        /\ inp = 3000 * Unit => out[1] = <<"B", 4>>
        /\ inp = 3000 * Unit - Unit => out[1] = <<"C", 3>>
        /\ inp = 1500 * Unit => out[1] = <<"C", 3>>
        /\ inp = 1500 * Unit - Unit => out[1] = <<"D", 2>>
        /\ inp = 750 * Unit => out[1] = <<"D", 2>>
        /\ inp = 750 * Unit - Unit => out[1] = <<"E", 1>>
        /\ inp = 0 => out[1] = <<"E", 1>>

\* the amount exactly on the lowest boundary was classified
C11_Witness ==
    /\ out # None
    /\ inp = 750 * Unit
    /\ out[1] = <<"D", 2>>

----------------------------------------------------------------------------
(* A direct call of parse_time_to_seconds *)

\* the characters of the time strings tried, and their greatest length
TimeChars == {"1", "8", ":", "."}
MaxTimeLen == 7

\* every text over the characters S of length up to n
RECURSIVE Texts(_, _)
Texts(S, n) ==
    IF n = 0 THEN {<<>>}
    ELSE LET shorter == Texts(S, n - 1)
         IN shorter \cup {Append(t, c) : t \in {u \in shorter : Len(u) = n - 1}, c \in S}

InitTime ==
    /\ IdleStore
    /\ IdleLoader
    /\ IdleConc
    /\ IdleWalk
    /\ inp \in Texts(TimeChars, MaxTimeLen)
    /\ out = None

CallParseTimeToSeconds ==
    /\ out = None
    /\ out' = Some(ParseTimeToSeconds(inp))
    /\ CallFrame

NextTime == CallParseTimeToSeconds

SpecTime == InitTime /\ [][NextTime]_vars

\* the text is minutes, a colon, two digits of seconds, a point and one
\* decimal digit, and nothing else
IsTimeForm(text) ==
    LET n1 == DigitRun(text, 1)
    IN /\ n1 >= 1
       /\ Len(text) = n1 + 5
       /\ text[n1 + 1] = ":"
       /\ text[n1 + 2] \in Digits
       /\ text[n1 + 3] \in Digits
       /\ text[n1 + 4] = "."
       /\ text[n1 + 5] \in Digits

\* C17: parse_time_to_seconds returns minutes*60 + seconds + decimal/10 for
\* a text of the form M:SS.D, and returns absent for the empty text and for
\* every text that is not of that form, such as a well-formed time followed
\* by more characters or a time with two decimal digits.
C17_OnlyTheTimeForm ==
    out # None =>
        IF IsTimeForm(inp)
        THEN LET n1 == DigitRun(inp, 1)
             IN out[1] = Some(ToInt(SubSeq(inp, 1, n1)) * 60 * Unit
                              + ToInt(SubSeq(inp, n1 + 2, n1 + 3)) * Unit
                              + DigitVal(inp[n1 + 5]))
        ELSE out[1] = None

----------------------------------------------------------------------------
(* A direct call of the decoding of a document's base name *)

\* base names tried: the first n characters, n up to MaxNameLen, of a name
\* whose venue code is any two of CodeChars
MaxNameLen == 13
CodeChars == {"0", "1", "5", "9", "x"}

NameChar(k, c1, c2) ==
    CASE k \in {1, 3} -> "2"
      [] k \in {2, 4} -> "0"
      [] k = 5 -> c1
      [] k = 6 -> c2
      [] k = 7 -> "0"
      [] k = 8 -> "3"
      [] k = 9 -> "0"
      [] k = 10 -> "4"
      [] k \in {11, 12} -> "1"
      [] OTHER -> "9"

Names ==
    {[k \in 1..n |-> NameChar(k, c1, c2)] : n \in 0..MaxNameLen, c1 \in CodeChars,
                                            c2 \in CodeChars}

InitDecode ==
    /\ IdleStore
    /\ IdleLoader
    /\ IdleConc
    /\ IdleWalk
    /\ inp \in Names
    /\ out = None

CallDecodeRaceId ==
    /\ out = None
    /\ out' = Some(DecodeRaceId(inp))
    /\ CallFrame

NextDecode == CallDecodeRaceId

SpecDecode == InitDecode /\ [][NextDecode]_vars

\* the two characters at the 0-based positions a and a + 1 of the name, when
\* the name has them
Pair(text, a) ==
    IF Len(text) >= a + 2 THEN Some(<<text[a + 1], text[a + 2]>>) ELSE None

\* the fixed table of venue names, by the number of the code 01..10
VenueNames ==
    <<"Sapporo", "Hakodate", "Fukushima", "Niigata", "Tokyo",
      "Nakayama", "Chukyo", "Kyoto", "Hanshin", "Kokura">>

\* C16: for a base name of any length the decoding returns: venue code,
\* meeting, day and race number are the two characters at positions 4-5,
\* 6-7, 8-9 and 10-11 when the name holds them and absent otherwise, and the
\* venue name is the table's name for the codes 01..10 and the empty string
\* for any other code and for an absent code.
C16_DecodingFailsSoft ==
    out # None =>
        LET r == out[1]
        IN /\ r.venue_code = Pair(inp, 4)
           /\ r.kaisai = Pair(inp, 6)
           /\ r.day = Pair(inp, 8)
           /\ r.race_num = Pair(inp, 10)
           /\ r.venue_name =
                 IF /\ r.venue_code # None
                    /\ IsDigit(r.venue_code[1])
                    /\ ToInt(r.venue_code[1]) \in 1..10
                 THEN VenueNames[ToInt(r.venue_code[1])]
                 ELSE ""

\* a name too short for the meeting, whose venue code 05 was decoded
C16_Witness ==
    /\ out # None
    /\ Len(inp) = 7
    /\ out[1].venue_code = Some(<<"0", "5">>)
    /\ out[1].venue_name = "Tokyo"
    /\ out[1].kaisai = None

----------------------------------------------------------------------------
(* A direct call of parse_race_html_full on a readable document *)

\* results tables tried: up to MaxRows rows, each of nine or ten cells
MaxRows == 3

RowChoices ==
    [ncells : {9, 10}, finish : {Txt1, Txt2, TxtVoid}, num : {Txt1}, time : {TxtTime},
     prize : {TxtPrizeTop, TxtPrizeLow, <<>>}, cells : {<<>>}]

\* every sequence over S of length up to n
RECURSIVE SeqsUpTo(_, _)
SeqsUpTo(S, n) ==
    IF n = 0 THEN {<<>>}
    ELSE LET shorter == SeqsUpTo(S, n - 1)
         IN shorter \cup {Append(q, x) : q \in {u \in shorter : Len(u) = n - 1}, x \in S}

InitParse ==
    /\ IdleStore
    /\ IdleLoader
    /\ IdleConc
    /\ IdleWalk
    /\ \E table \in {None} \cup {Some(rows) : rows \in SeqsUpTo(RowChoices, MaxRows)} :
          inp = [stem |-> 1, name |-> StemName(1),
                 soup |-> [racedata |-> None, date |-> None, table |-> table]]
    /\ out = None

CallParseRaceHtmlFull ==
    /\ out = None
    /\ out' = Some(ParseSoup(inp.stem, inp.name, inp.soup))
    /\ CallFrame

NextParse == CallParseRaceHtmlFull

SpecParse == InitParse /\ [][NextParse]_vars

\* the indices of the participants that finished first
Winners(horses) == {i \in DOMAIN horses : horses[i].finish_position = Some(1)}

\* C12: the event's first_prize, level and score are present if and only if
\* some parsed participant has finish_position 1, and then first_prize is
\* the prize_money of that participant (the first one in row order) and
\* (level, score) is classify_race_level(first_prize).
C12_LevelFromTheWinner ==
    out # None =>
        LET race_info == out[1].race_info
            horses == out[1].horses
        IN IF Winners(horses) = {}
           THEN /\ race_info.first_prize = None
                /\ race_info.race_level = None
                /\ race_info.level_score = None
           ELSE LET w == CHOOSE i \in Winners(horses) : \A k \in Winners(horses) : i <= k
                IN /\ race_info.first_prize = Some(horses[w].prize_money)
                   /\ race_info.race_level = Some(TierOf(horses[w].prize_money)[1])
                   /\ race_info.level_score = Some(TierOf(horses[w].prize_money)[2])

\* three participants, the second of which finished first with a prize of
\* 12000: level S, score 6
C12_Witness ==
    /\ out # None
    /\ Len(out[1].horses) = 3
    /\ Winners(out[1].horses) = {2}
    /\ out[1].horses[2].prize_money = 12000 * Unit
    /\ out[1].race_info.race_level = Some("S")
    /\ out[1].race_info.level_score = Some(6)

\* C13: the event's horse_count is the number of participant records
\* returned for the document, also when that number is zero.
C13_HorseCountIsTheNumberOfParticipants ==
    out # None => out[1].race_info.horse_count = Some(Len(out[1].horses))

----------------------------------------------------------------------------
(* A direct call of the body of the loop over the rows, on one row *)

\* rows tried: up to MaxCells cells with a class
MaxCells == 2

CellChoices ==
    [classes : {{"txt_r"}, {"ml"}, {"txt_r", "r3ml"}},
     text : {TxtOdds, <<"7", ".", "2">>, <<"1", "2">>},
     span : {None, Some(<<"0">>), Some(TxtPop), Some(<<"1", "8">>), Some(<<"1", "9">>)}]

InitRow ==
    /\ IdleStore
    /\ IdleLoader
    /\ IdleConc
    /\ IdleWalk
    /\ \E cells \in SeqsUpTo(CellChoices, MaxCells) :
          inp = [ncells |-> 10 + Len(cells), finish |-> Txt1, num |-> Txt1,
                 time |-> TxtTime, prize |-> TxtPrizeLow, cells |-> cells]
    /\ out = None

CallParseRow ==
    /\ out = None
    /\ out' = Some(ParseRow(1, inp))
    /\ CallFrame

NextRow == CallParseRow

SpecRow == InitRow /\ [][NextRow]_vars

\* the cells of the row that qualify for the odds, and for the popularity
OddsCells(row) ==
    {i \in DOMAIN row.cells :
        "txt_r" \in row.cells[i].classes /\ IsDecimal(row.cells[i].text)}

PopularityCells(row) ==
    {i \in DOMAIN row.cells :
        /\ ContainsMl(row.cells[i].classes)
        /\ row.cells[i].span # None
        /\ IsDigit(row.cells[i].span[1])
        /\ ToInt(row.cells[i].span[1]) \in 1..18}

First(S) == CHOOSE i \in S : \A k \in S : i <= k

\* the stored popularity is absent or in 1..18
PopularityInRange ==
    out # None => (out[1].popularity = None \/ out[1].popularity[1] \in 1..18)

\* the stored odds are those of the first qualifying cell
OddsOfTheFirstCell ==
    out # None =>
        out[1].odds = IF OddsCells(inp) = {} THEN None
                      ELSE Some(DecimalToFloat(inp.cells[First(OddsCells(inp))].text))

\* C15: in one row, the odds and the popularity are each those of the first
\* qualifying cell in cell order, later qualifying cells being ignored, and
\* the stored popularity is absent or in 1..18.
C15_FirstQualifyingCellWins ==
    /\ OddsOfTheFirstCell
    /\ PopularityInRange
    /\ out # None =>
          out[1].popularity =
              IF PopularityCells(inp) = {} THEN None
              ELSE Some(ToInt(inp.cells[First(PopularityCells(inp))].span[1]))

----------------------------------------------------------------------------
(* The data loader: load_races, load_results, clear_cache.  The persisted  *)
(* tables at the default local paths are the tables the merges write.      *)

\* the longest sequence of loader calls
MaxCalls == 3

\* the document whose rows the tables published at GITHUB_BASE_URL hold
GithubDoc == [year |-> 2021, stem |-> 2, kind |-> "ok"]
GithubRaces == Table(<<ParseRaceHtmlFull(GithubDoc).race_info>>)
GithubResults == Table(WithRaceInfo(ParseRaceHtmlFull(GithubDoc)))

\* a parquet file at another local path: a table without a row
OtherFile == Table(<<>>)

\* the local_path argument: None, or the path of the other file
LocalPaths == {None, Some("other.parquet")}

\* pd.read_parquet(source): the rows of the table, or the call raises when
\* there is no such file
ReadParquet(source) == [raised |-> ~source.exists, df |-> source.rows]

\* the source that load_races names: the URL, the default local path or
\* the local path given
RacesSource(from_github, local_path) ==
    IF from_github THEN GithubRaces
    ELSE IF local_path = None THEN races_tbl
    ELSE OtherFile

\* the source that load_results names
ResultsSource(from_github, local_path) ==
    IF from_github THEN GithubResults
    ELSE IF local_path = None THEN results_tbl
    ELSE OtherFile

\* a variant of load_races without the test of the cache
LoadRaces_Reloads(c, from_github, local_path) ==
    LET Loaded(r) ==
            IF r.raised
            THEN [cache |-> c, read |-> TRUE, raised |-> TRUE, ret |-> None]
            ELSE [cache |-> [c EXCEPT !.races_df = Some(r.df)],
                  read |-> TRUE, raised |-> FALSE, ret |-> Some(r.df)]
    IN Loaded(ReadParquet(RacesSource(from_github, local_path)))

\* load_races(from_github, local_path) with the globals c: the globals after
\* the call, whether read_parquet was called, whether the call raised, and
\* what it returned
LoadRaces(c, from_github, local_path) ==
    LET Loaded(r) ==
            IF r.raised
            THEN [cache |-> c, read |-> TRUE, raised |-> TRUE, ret |-> None]
            ELSE [cache |-> [c EXCEPT !.races_df = Some(r.df)],
                  read |-> TRUE, raised |-> FALSE, ret |-> Some(r.df)]
    IN IF c.races_df # None
       THEN [cache |-> c, read |-> FALSE, raised |-> FALSE, ret |-> c.races_df]
       ELSE Loaded(ReadParquet(RacesSource(from_github, local_path)))

\* load_results(from_github, local_path) with the globals c
LoadResults(c, from_github, local_path) ==
    LET Loaded(r) ==
            IF r.raised
            THEN [cache |-> c, read |-> TRUE, raised |-> TRUE, ret |-> None]
            ELSE [cache |-> [c EXCEPT !.results_df = Some(r.df)],
                  read |-> TRUE, raised |-> FALSE, ret |-> Some(r.df)]
    IN IF c.results_df # None
       THEN [cache |-> c, read |-> FALSE, raised |-> FALSE, ret |-> c.results_df]
       ELSE Loaded(ReadParquet(ResultsSource(from_github, local_path)))

\* clear_cache() with the globals c
ClearCache(c) == [c EXCEPT !.races_df = None, !.results_df = None]

\* the entry of a call in the history: the call, its arguments, the table
\* its arguments name at the time of the call, and its outcome
Logged(op, from_github, local_path, source, r) ==
    [op |-> op, from_github |-> from_github, local_path |-> local_path,
     source |-> source, read |-> r.read, raised |-> r.raised, ret |-> r.ret]

LoaderFrame ==
    UNCHANGED <<tree, fmt, races_tbl, results_tbl, last, pc, loc, args, runs, wk, inp, out>>

CallLoadRaces ==
    /\ Len(hist) < MaxCalls
    /\ \E from_github \in BOOLEAN, local_path \in LocalPaths :
          /\ cache' = LoadRaces(cache, from_github, local_path).cache
          /\ hist' = Append(hist, Logged("load_races", from_github, local_path,
                                         RacesSource(from_github, local_path),
                                         LoadRaces(cache, from_github, local_path)))
    /\ LoaderFrame

CallLoadResults ==
    /\ Len(hist) < MaxCalls
    /\ \E from_github \in BOOLEAN, local_path \in LocalPaths :
          /\ cache' = LoadResults(cache, from_github, local_path).cache
          /\ hist' = Append(hist, Logged("load_results", from_github, local_path,
                                         ResultsSource(from_github, local_path),
                                         LoadResults(cache, from_github, local_path)))
    /\ LoaderFrame

CallClearCache ==
    /\ Len(hist) < MaxCalls
    /\ cache' = ClearCache(cache)
    /\ hist' = Append(hist, Logged("clear_cache", FALSE, None, NoTable,
                                   [read |-> FALSE, raised |-> FALSE, ret |-> None]))
    /\ LoaderFrame

\* a merge with the default arguments runs between two calls of the loader
\* and writes the tables at the default local paths
MergeBetweenLoads ==
    /\ fmt = "parquet"
    /\ MergeStep(ParseIncrementalParquet(races_tbl, results_tbl, YearsNone, 0))
    /\ UNCHANGED <<tree, fmt, pc, loc, args, runs, wk, inp, out, cache, hist>>

\* the loader is used in a process in which merges also run: the store is
\* empty or holds both tables of an earlier run, the tree has one year
\* directory of readable documents
InitLoader ==
    /\ \E n \in 0..NumStems : tree = [y \in {2020} |-> [s \in 1..n |-> "ok"]]
    /\ fmt = "parquet"
    /\ \/ races_tbl = NoTable /\ results_tbl = NoTable
       \/ races_tbl = Table(OldRaces) /\ results_tbl = Table(OldResults)
    /\ last = LastInit
    /\ IdleConc
    /\ IdleWalk
    /\ IdleCall
    /\ IdleLoader

NextLoader ==
    \/ CallLoadRaces
    \/ CallLoadResults
    \/ CallClearCache
    \/ MergeBetweenLoads

SpecLoader == InitLoader /\ [][NextLoader]_vars

----------------------------------------------------------------------------
(* Claim about the data loader *)

IsLoad(i) == hist[i].op \in {"load_races", "load_results"}

\* the index of the last clear_cache before call i, 0 when there is none
LastClearBefore(i) ==
    LET clears == {k \in 1..(i - 1) : hist[k].op = "clear_cache"}
    IN IF clears = {} THEN 0 ELSE CHOOSE k \in clears : \A k2 \in clears : k2 <= k

\* the loads of the kind of call i since the last clear_cache, up to call i
SinceClear(i) == {k \in (LastClearBefore(i) + 1)..i : hist[k].op = hist[i].op}

\* those of them that returned
Completed(i) == {k \in SinceClear(i) : ~hist[k].raised}

\* the cache of a kind is set exactly when a load of that kind returned
\* since the last clear_cache
CacheSetBy(op, df) ==
    df # None <=>
        \E i \in DOMAIN hist :
            /\ hist[i].op = op
            /\ ~hist[i].raised
            /\ \A k \in i..Len(hist) : hist[k].op # "clear_cache"

\* C22 as stated: a load returns the table read by the first load of its
\* kind since the last clear_cache (or since the start), and the source is
\* read on that first load only.
C22_CacheServesTheFirstLoad ==
    \A i \in DOMAIN hist :
        IsLoad(i) =>
            /\ hist[i].read = (i = First(SinceClear(i)))
            /\ ~hist[i].raised =>
                  /\ hist[First(SinceClear(i))].source.exists
                  /\ hist[i].ret = Some(hist[First(SinceClear(i))].source.rows)

\* C22, amended: a load that returns, returns the table read by the first
\* load of its kind that returned since the last clear_cache (or since the
\* start), whatever its own arguments name and whatever the merges wrote in
\* between; the source is read by exactly the loads that no returned load of
\* their kind precedes since the last clear_cache; a load raises only when
\* its read does; clear_cache empties both caches together.
C22_CacheServesTheFirstCompletedLoad ==
    /\ \A i \in DOMAIN hist :
          IsLoad(i) =>
              /\ hist[i].read = (Completed(i) \ {i} = {})
              /\ hist[i].raised => hist[i].read /\ ~hist[i].source.exists
              /\ ~hist[i].raised =>
                    /\ hist[First(Completed(i))].source.exists
                    /\ hist[i].ret = Some(hist[First(Completed(i))].source.rows)
    /\ CacheSetBy("load_races", cache.races_df)
    /\ CacheSetBy("load_results", cache.results_df)
    /\ (hist # <<>> /\ hist[Len(hist)].op = "clear_cache") => cache = NoCache

\* a load from the default local path raised, a merge then wrote the tables,
\* a second load from that path read them, and a third load, asked for the
\* published tables, returned the local ones without a read
C22_Witness ==
    /\ Len(hist) = 3
    /\ \A i \in 1..3 : hist[i].op = "load_races"
    /\ hist[1].raised
    /\ hist[2].read /\ ~hist[2].raised /\ ~hist[2].from_github
    /\ hist[3].from_github /\ ~hist[3].read
    /\ hist[3].ret = hist[2].ret
    /\ hist[3].ret # Some(hist[3].source.rows)

====
